---------------------------- MODULE Spec2Model ----------------------------
(***************************************************************************)
(* The session multiplexer of the Servin web GUI (src/webview_gui/app.py): *)
(* the Socket.IO handlers start_logs / stop_logs / start_exec /            *)
(* exec_input / stop_exec / disconnect, the two process-wide registries    *)
(* active_log_streams and active_exec_sessions, and the worker threads     *)
(* stream_logs_thread and exec_session_thread with their child processes.  *)
(*                                                                         *)
(* Handlers and workers are Python threads that share the two dicts with   *)
(* no lock.  Every access to a shared dict is one atomic step (one         *)
(* bytecode under the interpreter lock); the steps of a handler and of the *)
(* workers interleave freely.  One handler is in flight at a time.         *)
(***************************************************************************)
EXTENDS Naturals, Sequences, FiniteSets, TLC

\* Bounds of the model.
MaxWorkers == 2        \* worker threads spawned in one run
MaxLines   == 1        \* lines a follower child writes
MaxInputs  == 2        \* inputs accepted by exec_input in one run

Clients  == {"A", "B"}            \* request.sid of the connections
Units    == {"c1"}                \* container ids a client names
NoUnit   == ""                    \* a request with no container_id
Requests == Units \cup {NoUnit}   \* data.get('container_id')
Workers  == 1..MaxWorkers

VARIABLES
  servin_client,         \* TRUE: the client object exists; FALSE: None
  conn,                  \* per client: "connected" | "disconnected"
  active_log_streams,    \* dict, in insertion order: <<[key, s]>>
  active_exec_sessions,  \* dict, in insertion order: <<[key, s]>>
  sess,                  \* the session dict objects, by identity s
  nworkers,              \* threads started so far; worker w runs session w
  worker,                \* per worker: its arguments and its position
  child,                 \* per worker: the child process and its pipes
  out,                   \* per worker: the messages emitted to its room
  handler,               \* the handler in flight: position and locals
  reply,                 \* what the last handler emitted to its caller
  ninputs,               \* inputs accepted so far (identifies each input)
  accepted,              \* per input: the session dict it was appended to
  wrote,                 \* the writes to child stdin pipes, in time order
  platform_system,       \* platform.system() of the host
  containers,            \* the runtime's units, in the order `servin ls` prints
  state_dir,             \* ~/.servin/containers, in the order os.listdir returns
  call,                  \* the start_container call: position and locals
  invoked                \* the _run_command invocations, in time order

\* The state of ServinClient.start_container and its collaborators.
cvars == <<platform_system, containers, state_dir, call, invoked>>

vars == <<servin_client, conn, active_log_streams, active_exec_sessions, sess,
          nworkers, worker, child, out, handler, reply, ninputs, accepted,
          wrote, cvars>>

-----------------------------------------------------------------------------
(* Strings and dicts *)

\* f"{request.sid}:{container_id}"
StreamKey(sid, container_id) == sid \o ":" \o container_id

\* str.startswith
StartsWith(s, prefix) ==
  Len(s) >= Len(prefix) /\ SubSeq(s, 1, Len(prefix)) = prefix

\* key in d
HasKey(d, key) == \E i \in 1..Len(d) : d[i].key = key

\* d[key], for a key that is in d
Lookup(d, key) == d[CHOOSE i \in 1..Len(d) : d[i].key = key].s

\* d[key] = s: an existing key keeps its place, a new key goes last
Put(d, key, s) ==
  IF HasKey(d, key)
  THEN [i \in 1..Len(d) |-> IF d[i].key = key THEN [key |-> key, s |-> s] ELSE d[i]]
  ELSE Append(d, [key |-> key, s |-> s])

\* del d[key], for a key that is in d
Del(d, key) == SelectSeq(d, LAMBDA e : e.key # key)

\* {'stop': False}
NewSession == [stop |-> FALSE, has_queue |-> FALSE, input_queue |-> <<>>]

\* d.get(key, {}).get('stop', True)
StopFlag(d, key) == IF HasKey(d, key) THEN sess[Lookup(d, key)].stop ELSE TRUE

NoWorker == [kind |-> "none", sid |-> "", container_id |-> "", key |-> "",
             pc |-> "none", command |-> 0, logs |-> ""]
NoChild  == [state |-> "none", pipe |-> <<>>, answered |-> 0]
Idle     == [pc |-> "idle", sid |-> "", container_id |-> "", key |-> "",
             it |-> 0, used |-> 0, streams_to_remove |-> <<>>,
             sessions_to_remove |-> <<>>]

Msg(type, data, tag) == [type |-> type, data |-> data, tag |-> tag]

\* socketio.emit(...) with no room: the messages go to every client.
ToEveryone(client_sid, msgs) ==
  [i \in 1..Len(msgs) |-> [type |-> msgs[i].type, data |-> msgs[i].data,
                           tag |-> msgs[i].tag, room |-> "*"]]

\* socketio.emit(..., room=client_sid): the messages as addressed.
ToRoom(client_sid, msgs) ==
  [i \in 1..Len(msgs) |-> [type |-> msgs[i].type, data |-> msgs[i].data,
                           tag |-> msgs[i].tag, room |-> client_sid]]

\* Worker w emits the messages, in order, to the room of its client_sid.
EmitAll(w, msgs) == out' = [out EXCEPT ![w] = @ \o ToRoom(worker[w].sid, msgs)]
Emit(w, m) == EmitAll(w, <<m>>)

\* No start_container call is made or in flight.
NoCall == [pc |-> "idle", container_id |-> "",
           container |-> [id |-> "", name |-> "", status |-> ""],
           state_info |-> [found |-> FALSE], run_cmd |-> <<>>, result |-> "none"]

NoStart ==
  /\ platform_system = "Linux"
  /\ containers = <<>>
  /\ state_dir = <<>>
  /\ call = NoCall
  /\ invoked = <<>>

Init ==
  /\ NoStart
  /\ servin_client \in BOOLEAN
  /\ conn = [c \in Clients |-> "connected"]
  /\ active_log_streams = <<>>
  /\ active_exec_sessions = <<>>
  /\ sess = [s \in Workers |-> NewSession]
  /\ nworkers = 0
  /\ worker = [w \in Workers |-> NoWorker]
  /\ child = [w \in Workers |-> NoChild]
  /\ out = [w \in Workers |-> <<>>]
  /\ handler = Idle
  /\ reply = "none"
  /\ ninputs = 0
  /\ accepted = <<>>
  /\ wrote = <<>>

-----------------------------------------------------------------------------
(* The handlers.  A handler runs while handler.pc # "idle". *)

CanCall(c) == handler.pc = "idle" /\ conn[c] = "connected"

\* The handler returns (or raises out of the handler): r is what the caller got.
Return(r) == handler' = Idle /\ reply' = r

\* threading.Thread(target=..., args=(container_id, request.sid, key)).start()
\* registers the fresh session dict under key and starts its worker.
Spawn(kind, sid, container_id, key) ==
  LET w == nworkers + 1 IN
  /\ nworkers' = w
  /\ sess' = [sess EXCEPT ![w] = NewSession]
  /\ worker' = [worker EXCEPT ![w] =
                  [kind |-> kind, sid |-> sid, container_id |-> container_id,
                   key |-> key, pc |-> "start", command |-> 0, logs |-> ""]]

\* start_logs up to the test `stream_key in active_log_streams`; when the key
\* is absent the handler goes on to register the session and start the thread.
handle_start_logs(c, container_id) ==
  LET key == StreamKey(c, container_id) IN
  /\ CanCall(c)
  /\ UNCHANGED <<cvars, servin_client, conn, active_exec_sessions, child, out, ninputs,
                 accepted, wrote>>
  /\ IF container_id = NoUnit
     THEN /\ Return("error: Container ID required")
          /\ UNCHANGED <<active_log_streams, sess, nworkers, worker>>
     ELSE IF ~servin_client
     THEN /\ Return("error: Servin runtime not available")
          /\ UNCHANGED <<active_log_streams, sess, nworkers, worker>>
     ELSE IF HasKey(active_log_streams, key)
     THEN /\ nworkers < MaxWorkers
          /\ handler' = [Idle EXCEPT !.pc = "start_logs_flag", !.sid = c,
                           !.container_id = container_id, !.key = key]
          /\ reply' = "none"
          /\ UNCHANGED <<active_log_streams, sess, nworkers, worker>>
     ELSE /\ nworkers < MaxWorkers
          /\ active_log_streams' = Put(active_log_streams, key, nworkers + 1)
          /\ Spawn("log", c, container_id, key)
          /\ Return("logs_started")

\* active_log_streams[stream_key]['stop'] = True
handle_start_logs_flag ==
  /\ handler.pc = "start_logs_flag"
  /\ UNCHANGED <<cvars, servin_client, conn, active_log_streams, active_exec_sessions,
                 nworkers, worker, child, out, ninputs, accepted, wrote>>
  /\ IF HasKey(active_log_streams, handler.key)
     THEN /\ sess' = [sess EXCEPT ![Lookup(active_log_streams, handler.key)].stop = TRUE]
          /\ handler' = [handler EXCEPT !.pc = "start_logs_put"]
          /\ UNCHANGED reply
     ELSE \* KeyError, caught by `except Exception`
          /\ Return("error: Failed to start log stream")
          /\ UNCHANGED sess

\* active_log_streams[stream_key] = {'stop': False}; thread.start()
handle_start_logs_put ==
  /\ handler.pc = "start_logs_put"
  /\ nworkers < MaxWorkers
  /\ active_log_streams' = Put(active_log_streams, handler.key, nworkers + 1)
  /\ Spawn("log", handler.sid, handler.container_id, handler.key)
  /\ Return("logs_started")
  /\ UNCHANGED <<cvars, servin_client, conn, active_exec_sessions, child, out, ninputs,
                 accepted, wrote>>

\* stop_logs up to the test `stream_key in active_log_streams`
handle_stop_logs(c, container_id) ==
  LET key == StreamKey(c, container_id) IN
  /\ CanCall(c)
  /\ UNCHANGED <<cvars, servin_client, conn, active_log_streams, active_exec_sessions,
                 sess, nworkers, worker, child, out, ninputs, accepted, wrote>>
  /\ IF container_id = NoUnit
     THEN Return("error: Container ID required")
     ELSE IF HasKey(active_log_streams, key)
     THEN /\ handler' = [Idle EXCEPT !.pc = "stop_logs_flag", !.sid = c,
                           !.container_id = container_id, !.key = key]
          /\ reply' = "none"
     ELSE Return("none")

\* active_log_streams[stream_key]['stop'] = True
handle_stop_logs_flag ==
  /\ handler.pc = "stop_logs_flag"
  /\ UNCHANGED <<cvars, servin_client, conn, active_log_streams, active_exec_sessions,
                 nworkers, worker, child, out, ninputs, accepted, wrote>>
  /\ IF HasKey(active_log_streams, handler.key)
     THEN /\ sess' = [sess EXCEPT ![Lookup(active_log_streams, handler.key)].stop = TRUE]
          /\ handler' = [handler EXCEPT !.pc = "stop_logs_del"]
          /\ UNCHANGED reply
     ELSE /\ Return("raised: KeyError")
          /\ UNCHANGED sess

\* stop_logs that clears the key from both registries.
handle_stop_logs_del_both ==
  /\ handler.pc = "stop_logs_del"
  /\ UNCHANGED <<cvars, servin_client, conn, sess, nworkers,
                 worker, child, out, ninputs, accepted, wrote>>
  /\ active_exec_sessions' =
       IF HasKey(active_exec_sessions, handler.key)
       THEN Del(active_exec_sessions, handler.key) ELSE active_exec_sessions
  /\ IF HasKey(active_log_streams, handler.key)
     THEN /\ active_log_streams' = Del(active_log_streams, handler.key)
          /\ Return("logs_stopped")
     ELSE /\ Return("raised: KeyError")
          /\ UNCHANGED active_log_streams

\* del active_log_streams[stream_key]; emit('logs_stopped')
handle_stop_logs_del ==
  /\ handler.pc = "stop_logs_del"
  /\ UNCHANGED <<cvars, servin_client, conn, active_exec_sessions, sess, nworkers,
                 worker, child, out, ninputs, accepted, wrote>>
  /\ IF HasKey(active_log_streams, handler.key)
     THEN /\ active_log_streams' = Del(active_log_streams, handler.key)
          /\ Return("logs_stopped")
     ELSE /\ Return("raised: KeyError")
          /\ UNCHANGED active_log_streams

\* start_exec up to the test `session_key in active_exec_sessions`; when the
\* key is absent the handler goes on to register the session and start the thread.
handle_start_exec(c, container_id) ==
  LET key == StreamKey(c, container_id) IN
  /\ CanCall(c)
  /\ UNCHANGED <<cvars, servin_client, conn, active_log_streams, child, out, ninputs,
                 accepted, wrote>>
  /\ IF container_id = NoUnit
     THEN /\ Return("error: Container ID required")
          /\ UNCHANGED <<active_exec_sessions, sess, nworkers, worker>>
     ELSE IF ~servin_client
     THEN /\ Return("error: Servin runtime not available")
          /\ UNCHANGED <<active_exec_sessions, sess, nworkers, worker>>
     ELSE IF HasKey(active_exec_sessions, key)
     THEN /\ nworkers < MaxWorkers
          /\ handler' = [Idle EXCEPT !.pc = "start_exec_flag", !.sid = c,
                           !.container_id = container_id, !.key = key]
          /\ reply' = "none"
          /\ UNCHANGED <<active_exec_sessions, sess, nworkers, worker>>
     ELSE /\ nworkers < MaxWorkers
          /\ active_exec_sessions' = Put(active_exec_sessions, key, nworkers + 1)
          /\ Spawn("exec", c, container_id, key)
          /\ Return("exec_started")

\* active_exec_sessions[session_key]['stop'] = True
handle_start_exec_flag ==
  /\ handler.pc = "start_exec_flag"
  /\ UNCHANGED <<cvars, servin_client, conn, active_log_streams, active_exec_sessions,
                 nworkers, worker, child, out, ninputs, accepted, wrote>>
  /\ IF HasKey(active_exec_sessions, handler.key)
     THEN /\ sess' = [sess EXCEPT ![Lookup(active_exec_sessions, handler.key)].stop = TRUE]
          /\ handler' = [handler EXCEPT !.pc = "start_exec_put"]
          /\ UNCHANGED reply
     ELSE \* KeyError, caught by `except Exception`
          /\ Return("error: Failed to start exec session")
          /\ UNCHANGED sess

\* active_exec_sessions[session_key] = {'stop': False}; thread.start()
handle_start_exec_put ==
  /\ handler.pc = "start_exec_put"
  /\ nworkers < MaxWorkers
  /\ active_exec_sessions' = Put(active_exec_sessions, handler.key, nworkers + 1)
  /\ Spawn("exec", handler.sid, handler.container_id, handler.key)
  /\ Return("exec_started")
  /\ UNCHANGED <<cvars, servin_client, conn, active_log_streams, child, out, ninputs,
                 accepted, wrote>>

\* exec_input without the `return` after the 'No active exec session' reply:
\* the handler goes on to the queue although the key is absent.
handle_exec_input_no_return(c, container_id) ==
  LET key == StreamKey(c, container_id) IN
  /\ CanCall(c)
  /\ UNCHANGED <<cvars, servin_client, conn, active_log_streams, active_exec_sessions,
                 sess, nworkers, worker, child, out, ninputs, accepted, wrote>>
  /\ IF container_id = NoUnit
     THEN Return("error: Container ID required")
     ELSE /\ ninputs < MaxInputs
          /\ handler' = [Idle EXCEPT !.pc = "exec_input_append", !.sid = c,
                           !.container_id = container_id, !.key = key]
          /\ reply' = IF HasKey(active_exec_sessions, key)
                      THEN "none" ELSE "error: No active exec session"

\* exec_input up to the test `session_key not in active_exec_sessions`
handle_exec_input(c, container_id) ==
  LET key == StreamKey(c, container_id) IN
  /\ CanCall(c)
  /\ UNCHANGED <<cvars, servin_client, conn, active_log_streams, active_exec_sessions,
                 sess, nworkers, worker, child, out, ninputs, accepted, wrote>>
  /\ IF container_id = NoUnit
     THEN Return("error: Container ID required")
     ELSE IF ~HasKey(active_exec_sessions, key)
     THEN Return("error: No active exec session")
     ELSE /\ ninputs < MaxInputs
          /\ handler' = [Idle EXCEPT !.pc = "exec_input_append", !.sid = c,
                           !.container_id = container_id, !.key = key]
          /\ reply' = "none"

\* session = active_exec_sessions[session_key]
\* if 'input_queue' not in session: session['input_queue'] = []
\* session['input_queue'].append(command)
\* The command is identified by its acceptance number.
handle_exec_input_append ==
  /\ handler.pc = "exec_input_append"
  /\ UNCHANGED <<cvars, servin_client, conn, active_log_streams, active_exec_sessions,
                 nworkers, worker, child, out, wrote>>
  /\ IF HasKey(active_exec_sessions, handler.key)
     THEN LET s == Lookup(active_exec_sessions, handler.key) IN
          /\ ninputs' = ninputs + 1
          /\ accepted' = Append(accepted, s)
          /\ sess' = [sess EXCEPT ![s].has_queue = TRUE,
                                  ![s].input_queue = Append(@, ninputs + 1)]
          /\ Return("none")
     ELSE \* KeyError, caught by `except Exception`
          /\ Return("error: Failed to send input")
          /\ UNCHANGED <<sess, ninputs, accepted>>

\* stop_exec without the test of container_id.
handle_stop_exec_unchecked(c, container_id) ==
  LET key == StreamKey(c, container_id) IN
  /\ CanCall(c)
  /\ UNCHANGED <<cvars, servin_client, conn, active_log_streams, active_exec_sessions,
                 sess, nworkers, worker, child, out, ninputs, accepted, wrote>>
  /\ IF HasKey(active_exec_sessions, key)
     THEN /\ handler' = [Idle EXCEPT !.pc = "stop_exec_flag", !.sid = c,
                           !.container_id = container_id, !.key = key]
          /\ reply' = "none"
     ELSE Return("none")

\* stop_exec up to the test `session_key in active_exec_sessions`
handle_stop_exec(c, container_id) ==
  LET key == StreamKey(c, container_id) IN
  /\ CanCall(c)
  /\ UNCHANGED <<cvars, servin_client, conn, active_log_streams, active_exec_sessions,
                 sess, nworkers, worker, child, out, ninputs, accepted, wrote>>
  /\ IF container_id = NoUnit
     THEN Return("error: Container ID required")
     ELSE IF HasKey(active_exec_sessions, key)
     THEN /\ handler' = [Idle EXCEPT !.pc = "stop_exec_flag", !.sid = c,
                           !.container_id = container_id, !.key = key]
          /\ reply' = "none"
     ELSE Return("none")

\* active_exec_sessions[session_key]['stop'] = True
handle_stop_exec_flag ==
  /\ handler.pc = "stop_exec_flag"
  /\ UNCHANGED <<cvars, servin_client, conn, active_log_streams, active_exec_sessions,
                 nworkers, worker, child, out, ninputs, accepted, wrote>>
  /\ IF HasKey(active_exec_sessions, handler.key)
     THEN /\ sess' = [sess EXCEPT ![Lookup(active_exec_sessions, handler.key)].stop = TRUE]
          /\ handler' = [handler EXCEPT !.pc = "stop_exec_del"]
          /\ UNCHANGED reply
     ELSE /\ Return("raised: KeyError")
          /\ UNCHANGED sess

\* del active_exec_sessions[session_key]; emit('exec_stopped')
handle_stop_exec_del ==
  /\ handler.pc = "stop_exec_del"
  /\ UNCHANGED <<cvars, servin_client, conn, active_log_streams, sess, nworkers,
                 worker, child, out, ninputs, accepted, wrote>>
  /\ IF HasKey(active_exec_sessions, handler.key)
     THEN /\ active_exec_sessions' = Del(active_exec_sessions, handler.key)
          /\ Return("exec_stopped")
     ELSE /\ Return("raised: KeyError")
          /\ UNCHANGED active_exec_sessions

-----------------------------------------------------------------------------
(* disconnect: cleanup_client_streams(request.sid) *)

\* A dict iterator remembers the dict's size; `it` is its position.
handle_disconnect(c) ==
  /\ CanCall(c)
  /\ conn' = [conn EXCEPT ![c] = "disconnected"]
  /\ handler' = [Idle EXCEPT !.pc = "cleanup_flag_logs", !.sid = c, !.it = 1,
                   !.used = Len(active_log_streams)]
  /\ reply' = "none"
  /\ UNCHANGED <<cvars, servin_client, active_log_streams, active_exec_sessions, sess,
                 nworkers, worker, child, out, ninputs, accepted, wrote>>

\* cleanup_client_streams that collects the keys without setting their flag.
cleanup_collect_logs ==
  /\ handler.pc = "cleanup_flag_logs"
  /\ UNCHANGED <<cvars, servin_client, conn, active_log_streams, active_exec_sessions,
                 sess, nworkers, worker, child, out, ninputs, accepted, wrote>>
  /\ IF Len(active_log_streams) # handler.used
     THEN Return("raised: RuntimeError")
     ELSE IF handler.it > Len(active_log_streams)
     THEN /\ handler' = [handler EXCEPT !.pc = "cleanup_flag_execs", !.it = 1,
                           !.used = Len(active_exec_sessions)]
          /\ UNCHANGED reply
     ELSE LET e == active_log_streams[handler.it] IN
          /\ handler' = [handler EXCEPT !.it = @ + 1,
                           !.streams_to_remove =
                              IF StartsWith(e.key, handler.sid \o ":")
                              THEN Append(@, e.key) ELSE @]
          /\ UNCHANGED reply

\* One turn of `for stream_key in active_log_streams:`.  The iterator raises
\* RuntimeError when the dict changed size since the loop began.
cleanup_flag_logs ==
  /\ handler.pc = "cleanup_flag_logs"
  /\ UNCHANGED <<cvars, servin_client, conn, active_log_streams, active_exec_sessions,
                 nworkers, worker, child, out, ninputs, accepted, wrote>>
  /\ IF Len(active_log_streams) # handler.used
     THEN Return("raised: RuntimeError") /\ UNCHANGED sess
     ELSE IF handler.it > Len(active_log_streams)
     THEN /\ handler' = [handler EXCEPT !.pc = "cleanup_flag_execs", !.it = 1,
                           !.used = Len(active_exec_sessions)]
          /\ UNCHANGED <<sess, reply>>
     ELSE LET e == active_log_streams[handler.it] IN
          IF StartsWith(e.key, handler.sid \o ":")
          THEN /\ sess' = [sess EXCEPT ![e.s].stop = TRUE]
               /\ handler' = [handler EXCEPT !.it = @ + 1,
                                !.streams_to_remove = Append(@, e.key)]
               /\ UNCHANGED reply
          ELSE /\ handler' = [handler EXCEPT !.it = @ + 1]
               /\ UNCHANGED <<sess, reply>>

\* cleanup_client_streams that flags every exec session it comes by.
cleanup_flag_all_execs ==
  /\ handler.pc = "cleanup_flag_execs"
  /\ UNCHANGED <<cvars, servin_client, conn, active_log_streams, active_exec_sessions,
                 nworkers, worker, child, out, ninputs, accepted, wrote>>
  /\ IF Len(active_exec_sessions) # handler.used
     THEN Return("raised: RuntimeError") /\ UNCHANGED sess
     ELSE IF handler.it > Len(active_exec_sessions)
     THEN /\ handler' = [handler EXCEPT !.pc = "cleanup_remove_logs", !.it = 1]
          /\ UNCHANGED <<sess, reply>>
     ELSE LET e == active_exec_sessions[handler.it] IN
          /\ sess' = [sess EXCEPT ![e.s].stop = TRUE]
          /\ handler' = [handler EXCEPT !.it = @ + 1,
                           !.sessions_to_remove =
                              IF StartsWith(e.key, handler.sid \o ":")
                              THEN Append(@, e.key) ELSE @]
          /\ UNCHANGED reply

\* One turn of `for session_key in active_exec_sessions:`.
cleanup_flag_execs ==
  /\ handler.pc = "cleanup_flag_execs"
  /\ UNCHANGED <<cvars, servin_client, conn, active_log_streams, active_exec_sessions,
                 nworkers, worker, child, out, ninputs, accepted, wrote>>
  /\ IF Len(active_exec_sessions) # handler.used
     THEN Return("raised: RuntimeError") /\ UNCHANGED sess
     ELSE IF handler.it > Len(active_exec_sessions)
     THEN /\ handler' = [handler EXCEPT !.pc = "cleanup_remove_logs", !.it = 1]
          /\ UNCHANGED <<sess, reply>>
     ELSE LET e == active_exec_sessions[handler.it] IN
          IF StartsWith(e.key, handler.sid \o ":")
          THEN /\ sess' = [sess EXCEPT ![e.s].stop = TRUE]
               /\ handler' = [handler EXCEPT !.it = @ + 1,
                                !.sessions_to_remove = Append(@, e.key)]
               /\ UNCHANGED reply
          ELSE /\ handler' = [handler EXCEPT !.it = @ + 1]
               /\ UNCHANGED <<sess, reply>>

\* One turn of `for stream_key in streams_to_remove:` up to the test
\* `stream_key in active_log_streams`.
cleanup_remove_logs ==
  /\ handler.pc = "cleanup_remove_logs"
  /\ UNCHANGED <<cvars, servin_client, conn, active_log_streams, active_exec_sessions,
                 sess, nworkers, worker, child, out, reply, ninputs, accepted,
                 wrote>>
  /\ IF handler.it > Len(handler.streams_to_remove)
     THEN handler' = [handler EXCEPT !.pc = "cleanup_remove_execs", !.it = 1]
     ELSE IF HasKey(active_log_streams, handler.streams_to_remove[handler.it])
     THEN handler' = [handler EXCEPT !.pc = "cleanup_del_log"]
     ELSE handler' = [handler EXCEPT !.it = @ + 1]

\* del active_log_streams[stream_key]
cleanup_del_log ==
  /\ handler.pc = "cleanup_del_log"
  /\ UNCHANGED <<cvars, servin_client, conn, active_exec_sessions, sess, nworkers,
                 worker, child, out, ninputs, accepted, wrote>>
  /\ LET key == handler.streams_to_remove[handler.it] IN
     IF HasKey(active_log_streams, key)
     THEN /\ active_log_streams' = Del(active_log_streams, key)
          /\ handler' = [handler EXCEPT !.pc = "cleanup_remove_logs", !.it = @ + 1]
          /\ UNCHANGED reply
     ELSE Return("raised: KeyError") /\ UNCHANGED active_log_streams

\* One turn of `for session_key in sessions_to_remove:` up to the test
\* `session_key in active_exec_sessions`; the handler returns after the last.
cleanup_remove_execs ==
  /\ handler.pc = "cleanup_remove_execs"
  /\ UNCHANGED <<cvars, servin_client, conn, active_log_streams, active_exec_sessions,
                 sess, nworkers, worker, child, out, ninputs, accepted, wrote>>
  /\ IF handler.it > Len(handler.sessions_to_remove)
     THEN Return("disconnected")
     ELSE IF HasKey(active_exec_sessions, handler.sessions_to_remove[handler.it])
     THEN handler' = [handler EXCEPT !.pc = "cleanup_del_exec"] /\ UNCHANGED reply
     ELSE handler' = [handler EXCEPT !.it = @ + 1] /\ UNCHANGED reply

\* del active_exec_sessions[session_key]
cleanup_del_exec ==
  /\ handler.pc = "cleanup_del_exec"
  /\ UNCHANGED <<cvars, servin_client, conn, active_log_streams, sess, nworkers,
                 worker, child, out, ninputs, accepted, wrote>>
  /\ LET key == handler.sessions_to_remove[handler.it] IN
     IF HasKey(active_exec_sessions, key)
     THEN /\ active_exec_sessions' = Del(active_exec_sessions, key)
          /\ handler' = [handler EXCEPT !.pc = "cleanup_remove_execs", !.it = @ + 1]
          /\ UNCHANGED reply
     ELSE Return("raised: KeyError") /\ UNCHANGED active_exec_sessions

-----------------------------------------------------------------------------
(* ServinClient._run_command (src/webview_gui/servin_client.py) *)

MaxExit  == 1          \* exit codes 0..MaxExit of an invoked program
MaxFiles == 3          \* files in the state directory

\* d.get(k, default), for a dict d given as a function on its keys
get(d, k, default) == IF k \in DOMAIN d THEN d[k] ELSE default

\* str.endswith
EndsWith(s, suffix) ==
  Len(s) >= Len(suffix) /\ SubSeq(s, Len(s) - Len(suffix) + 1, Len(s)) = suffix

\* What becomes of the child of subprocess.run(cmd, ..., timeout=30): it exits
\* with a code, outlives the timeout, or cannot be launched at all.
Outcomes ==
  {[kind |-> "exit", returncode |-> n] : n \in 0..MaxExit}
    \cup {[kind |-> "timeout", returncode |-> 0], [kind |-> "launch", returncode |-> 0]}

servin_path == "servin"

\* _run_command with subprocess.run(..., check=True).
_run_command_check(args, outcome) ==
  IF outcome.kind = "exit" /\ outcome.returncode = 0
  THEN [raised |-> FALSE, returncode |-> 0, error |-> ""]
  ELSE [raised |-> TRUE, returncode |-> 0, error |-> "Failed to execute command"]

\* _run_command(args): the CompletedProcess of the child whatever its exit
\* code; ServinError on TimeoutExpired and on any other exception of run().
_run_command(args, outcome) ==
  IF outcome.kind = "exit"
  THEN [raised |-> FALSE, returncode |-> outcome.returncode, error |-> ""]
  ELSE IF outcome.kind = "timeout"
  THEN [raised |-> TRUE, returncode |-> 0, error |-> "Command timed out"]
  ELSE [raised |-> TRUE, returncode |-> 0, error |-> "Failed to execute command"]

-----------------------------------------------------------------------------
(* stream_logs_thread(container_id, client_sid, stream_key) *)

Count(seq, type) == Cardinality({i \in 1..Len(seq) : seq[i].type = type})

\* What `servin logs <id> --tail 100` does when get_logs runs it: an outcome
\* of the child and what it wrote.
Fetch(outcome, stdout, stderr) ==
  [outcome |-> outcome, stdout |-> stdout, stderr |-> stderr]

\* The history is there; the unit does not exist; the runtime does not
\* answer.
Fetches ==
  {Fetch([kind |-> "exit", returncode |-> 0], "logs", ""),
   Fetch([kind |-> "exit", returncode |-> 1], "", "no such container"),
   Fetch([kind |-> "timeout", returncode |-> 0], "", "")}

\* servin_client.get_logs(container_id, follow=False, tail=100) never raises:
\* `except Exception` turns every failure, its own ServinError for a missing
\* container included, into a returned text.
get_logs(container_id, fetch) ==
  LET result == _run_command(<<"logs", container_id, "--tail", "100">>, fetch.outcome)
  IN IF result.raised THEN "logs unavailable"
     ELSE IF result.returncode # 0
     THEN IF fetch.stderr = "no such container" THEN "logs unavailable"
          ELSE IF fetch.stderr = "no logs available" \/ fetch.stdout = ""
          THEN "has no logs yet"
          ELSE "logs unavailable"
     ELSE IF fetch.stdout # "" THEN fetch.stdout
     ELSE "is running but has no output yet"

\* The worker without its 'initial' batch.
initial_missing(container_id, logs) == <<>>

\* socketio.emit('log_data', {'container_id': ..., 'data': logs,
\*                            'type': 'initial'}, room=client_sid)
initial(container_id, logs) == <<Msg("initial", logs, 0)>>

\* The 'initial' batch, then Popen(['servin', 'logs', '-f', container_id]);
\* a Popen that raises is reported and leaves no process to terminate.
stream_logs_start(w) ==
  /\ worker[w].kind = "log" /\ worker[w].pc = "start"
  /\ \E fetch \in Fetches, launched \in BOOLEAN :
       LET logs == get_logs(worker[w].container_id, fetch) IN
       IF launched
       THEN /\ EmitAll(w, initial(worker[w].container_id, logs))
            /\ child' = [child EXCEPT ![w].state = "running"]
            /\ worker' = [worker EXCEPT ![w].pc = "loop", ![w].logs = logs]
       ELSE /\ EmitAll(w, initial(worker[w].container_id, logs)
                            \o <<Msg("error", "Log streaming error", 0)>>)
            /\ worker' = [worker EXCEPT ![w].pc = "cleanup", ![w].logs = logs]
            /\ UNCHANGED child
  /\ UNCHANGED <<cvars, servin_client, conn, active_log_streams, active_exec_sessions,
                 sess, nworkers, handler, reply, ninputs, accepted, wrote>>

\* while not active_log_streams.get(stream_key, {}).get('stop', True):
\*     if log_process.poll() is not None: break
stream_logs_loop(w) ==
  /\ worker[w].kind = "log" /\ worker[w].pc = "loop"
  /\ worker' = [worker EXCEPT ![w].pc =
                  IF StopFlag(active_log_streams, worker[w].key) THEN "cleanup"
                  ELSE IF child[w].state # "running" THEN "cleanup"
                  ELSE "readline"]
  /\ UNCHANGED <<cvars, servin_client, conn, active_log_streams, active_exec_sessions,
                 sess, nworkers, child, out, handler, reply, ninputs, accepted,
                 wrote>>

\* line = log_process.stdout.readline(): returns a line when the pipe holds
\* one, '' at end of file (the child exited), and otherwise does not return.
readline_returns(w) == child[w].pipe # <<>> \/ child[w].state # "running"

stream_logs_readline(w) ==
  /\ worker[w].kind = "log" /\ worker[w].pc = "readline"
  /\ readline_returns(w)
  /\ IF child[w].pipe # <<>>
     THEN /\ Emit(w, Msg("stream", "line", Head(child[w].pipe)))
          /\ child' = [child EXCEPT ![w].pipe = Tail(@)]
     ELSE \* time.sleep(0.1)
          UNCHANGED <<out, child>>
  /\ worker' = [worker EXCEPT ![w].pc = "loop"]
  /\ UNCHANGED <<cvars, servin_client, conn, active_log_streams, active_exec_sessions,
                 sess, nworkers, handler, reply, ninputs, accepted, wrote>>

\* finally: if log_process: log_process.terminate(); log_process.wait()
\* finally: if stream_key in active_log_streams:
stream_logs_cleanup(w) ==
  /\ worker[w].kind = "log" /\ worker[w].pc = "cleanup"
  /\ child' = [child EXCEPT ![w] =
                 IF @.state = "none" THEN @ ELSE [@ EXCEPT !.state = "reaped", !.pipe = <<>>]]
  /\ worker' = [worker EXCEPT ![w].pc =
                  IF HasKey(active_log_streams, worker[w].key) THEN "del" ELSE "done"]
  /\ UNCHANGED <<cvars, servin_client, conn, active_log_streams, active_exec_sessions,
                 sess, nworkers, out, handler, reply, ninputs, accepted, wrote>>

\* del active_log_streams[stream_key]; a KeyError ends the thread as well
stream_logs_del(w) ==
  /\ worker[w].kind = "log" /\ worker[w].pc = "del"
  /\ active_log_streams' =
       IF HasKey(active_log_streams, worker[w].key)
       THEN Del(active_log_streams, worker[w].key)
       ELSE active_log_streams
  /\ worker' = [worker EXCEPT ![w].pc = "done"]
  /\ UNCHANGED <<cvars, servin_client, conn, active_exec_sessions, sess, nworkers,
                 child, out, handler, reply, ninputs, accepted, wrote>>

stream_logs_thread(w) ==
  \/ stream_logs_start(w)
  \/ stream_logs_loop(w)
  \/ stream_logs_readline(w)
  \/ stream_logs_cleanup(w)
  \/ stream_logs_del(w)

-----------------------------------------------------------------------------
(* exec_session_thread(container_id, shell, client_sid, session_key) *)

\* The worker that emits its 'prompt' before it tries to launch the child.
exec_session_start_prompt_early(w) ==
  /\ worker[w].kind = "exec" /\ worker[w].pc = "start"
  /\ \E launched \in BOOLEAN :
       IF launched
       THEN /\ EmitAll(w, <<Msg("system", "Starting session", 0),
                          Msg("prompt", "$ ", 0)>>)
            /\ child' = [child EXCEPT ![w].state = "running"]
            /\ worker' = [worker EXCEPT ![w].pc = "loop"]
       ELSE /\ EmitAll(w, <<Msg("system", "Starting session", 0),
                          Msg("prompt", "$ ", 0),
                          Msg("error", "Exec session error", 0)>>)
            /\ worker' = [worker EXCEPT ![w].pc = "finally"]
            /\ UNCHANGED child
  /\ UNCHANGED <<cvars, servin_client, conn, active_log_streams, active_exec_sessions,
                 sess, nworkers, handler, reply, ninputs, accepted, wrote>>

\* The 'system' start message, Popen(['servin', 'exec', '-it', ...]) and the
\* 'prompt'.  A Popen that raises is reported ('error') and leaves no process.
exec_session_start(w) ==
  /\ worker[w].kind = "exec" /\ worker[w].pc = "start"
  /\ \E launched \in BOOLEAN :
       IF launched
       THEN /\ EmitAll(w, <<Msg("system", "Starting session", 0),
                          Msg("prompt", "$ ", 0)>>)
            /\ child' = [child EXCEPT ![w].state = "running"]
            /\ worker' = [worker EXCEPT ![w].pc = "loop"]
       ELSE /\ EmitAll(w, <<Msg("system", "Starting session", 0),
                          Msg("error", "Exec session error", 0)>>)
            /\ worker' = [worker EXCEPT ![w].pc = "finally"]
            /\ UNCHANGED child
  /\ UNCHANGED <<cvars, servin_client, conn, active_log_streams, active_exec_sessions,
                 sess, nworkers, handler, reply, ninputs, accepted, wrote>>

\* while not active_exec_sessions.get(session_key, {}).get('stop', True):
\*     session = active_exec_sessions.get(session_key, {})
\*     if 'input_queue' in session and session['input_queue']:
\*         command = session['input_queue'].pop(0)
exec_session_loop(w) ==
  /\ worker[w].kind = "exec" /\ worker[w].pc = "loop"
  /\ IF StopFlag(active_exec_sessions, worker[w].key)
     THEN /\ worker' = [worker EXCEPT ![w].pc = "finally"]
          /\ UNCHANGED sess
     ELSE LET s == Lookup(active_exec_sessions, worker[w].key) IN
          IF sess[s].has_queue /\ sess[s].input_queue # <<>>
          THEN /\ worker' = [worker EXCEPT ![w].pc = "write",
                                           ![w].command = Head(sess[s].input_queue)]
               /\ sess' = [sess EXCEPT ![s].input_queue = Tail(@)]
          ELSE /\ worker' = [worker EXCEPT ![w].pc = "poll"]
               /\ UNCHANGED sess
  /\ UNCHANGED <<cvars, servin_client, conn, active_log_streams, active_exec_sessions,
                 nworkers, child, out, handler, reply, ninputs, accepted, wrote>>

\* The worker without its echo.
echo_missing(w, command) == <<>>

\* The 'input' echo that follows a write to the child's stdin.
echo(w, command) == <<Msg("input", "command", command)>>

\* exec_process.stdin.write(command + '\n'); flush(); emit the 'input' echo.
\* Writing to the pipe of a child that has exited raises BrokenPipeError,
\* which the worker reports as 'error' before its `finally`.
exec_session_write(w) ==
  /\ worker[w].kind = "exec" /\ worker[w].pc = "write"
  /\ IF child[w].state = "running"
     THEN /\ wrote' = Append(wrote, [id |-> worker[w].command, w |-> w])
          /\ EmitAll(w, echo(w, worker[w].command))
          /\ worker' = [worker EXCEPT ![w].pc = "poll", ![w].command = 0]
     ELSE /\ Emit(w, Msg("error", "Exec session error", 0))
          /\ worker' = [worker EXCEPT ![w].pc = "finally", ![w].command = 0]
          /\ UNCHANGED wrote
  /\ UNCHANGED <<cvars, servin_client, conn, active_log_streams, active_exec_sessions,
                 sess, nworkers, child, handler, reply, ninputs, accepted>>

\* if exec_process.poll() is not None: break
\* if select.select([exec_process.stdout], [], [], 0.1)[0]: readline, emit 'output'
exec_session_poll(w) ==
  /\ worker[w].kind = "exec" /\ worker[w].pc = "poll"
  /\ IF child[w].state # "running"
     THEN /\ worker' = [worker EXCEPT ![w].pc = "finally"]
          /\ UNCHANGED <<out, child>>
     ELSE IF child[w].pipe # <<>>
     THEN /\ Emit(w, Msg("output", "line", Head(child[w].pipe)))
          /\ child' = [child EXCEPT ![w].pipe = Tail(@)]
          /\ worker' = [worker EXCEPT ![w].pc = "loop"]
     ELSE /\ worker' = [worker EXCEPT ![w].pc = "loop"]
          /\ UNCHANGED <<out, child>>
  /\ UNCHANGED <<cvars, servin_client, conn, active_log_streams, active_exec_sessions,
                 sess, nworkers, handler, reply, ninputs, accepted, wrote>>

\* The worker that marks its own session stopped on its way out.
exec_session_finally_sets_stop(w) ==
  /\ worker[w].kind = "exec" /\ worker[w].pc = "finally"
  /\ child' = [child EXCEPT ![w] =
                 IF @.state = "none" THEN @ ELSE [@ EXCEPT !.state = "reaped", !.pipe = <<>>]]
  /\ Emit(w, Msg("system", "Exec session ended.", 0))
  /\ sess' = [sess EXCEPT ![w].stop = TRUE]
  /\ worker' = [worker EXCEPT ![w].pc =
                  IF HasKey(active_exec_sessions, worker[w].key) THEN "del" ELSE "done"]
  /\ UNCHANGED <<cvars, servin_client, conn, active_log_streams, active_exec_sessions,
                 nworkers, handler, reply, ninputs, accepted, wrote>>

\* The worker's `finally` without terminate() and wait().
exec_session_finally_no_wait(w) ==
  /\ worker[w].kind = "exec" /\ worker[w].pc = "finally"
  /\ Emit(w, Msg("system", "Exec session ended.", 0))
  /\ worker' = [worker EXCEPT ![w].pc =
                  IF HasKey(active_exec_sessions, worker[w].key) THEN "del" ELSE "done"]
  /\ UNCHANGED <<cvars, servin_client, conn, active_log_streams, active_exec_sessions,
                 sess, nworkers, child, handler, reply, ninputs, accepted, wrote>>

\* finally: if exec_process: exec_process.terminate(); exec_process.wait()
\*          emit 'system' 'Exec session ended.'
\* finally: if session_key in active_exec_sessions:
exec_session_finally(w) ==
  /\ worker[w].kind = "exec" /\ worker[w].pc = "finally"
  /\ child' = [child EXCEPT ![w] =
                 IF @.state = "none" THEN @ ELSE [@ EXCEPT !.state = "reaped", !.pipe = <<>>]]
  /\ Emit(w, Msg("system", "Exec session ended.", 0))
  /\ worker' = [worker EXCEPT ![w].pc =
                  IF HasKey(active_exec_sessions, worker[w].key) THEN "del" ELSE "done"]
  /\ UNCHANGED <<cvars, servin_client, conn, active_log_streams, active_exec_sessions,
                 sess, nworkers, handler, reply, ninputs, accepted, wrote>>

\* The worker that ends without its registry cleanup.
exec_session_del_skipped(w) ==
  /\ worker[w].kind = "exec" /\ worker[w].pc = "del"
  /\ worker' = [worker EXCEPT ![w].pc = "done"]
  /\ UNCHANGED <<cvars, servin_client, conn, active_log_streams, active_exec_sessions,
                 sess, nworkers, child, out, handler, reply, ninputs, accepted, wrote>>

\* del active_exec_sessions[session_key]; a KeyError ends the thread as well
exec_session_del(w) ==
  /\ worker[w].kind = "exec" /\ worker[w].pc = "del"
  /\ active_exec_sessions' =
       IF HasKey(active_exec_sessions, worker[w].key)
       THEN Del(active_exec_sessions, worker[w].key)
       ELSE active_exec_sessions
  /\ worker' = [worker EXCEPT ![w].pc = "done"]
  /\ UNCHANGED <<cvars, servin_client, conn, active_log_streams, sess, nworkers,
                 child, out, handler, reply, ninputs, accepted, wrote>>

exec_session_thread(w) ==
  \/ exec_session_start(w)
  \/ exec_session_loop(w)
  \/ exec_session_write(w)
  \/ exec_session_poll(w)
  \/ exec_session_finally(w)
  \/ exec_session_del(w)

-----------------------------------------------------------------------------
(* The child processes: `servin logs -f` and `servin exec -it` *)

\* The follower writes a line to its stdout.
follower_writes(w) ==
  /\ worker[w].kind = "log" /\ child[w].state = "running"
  /\ Len(child[w].pipe) + Count(out[w], "stream") < MaxLines
  /\ child' = [child EXCEPT ![w].pipe = Append(@, 0)]
  /\ UNCHANGED <<cvars, servin_client, conn, active_log_streams, active_exec_sessions,
                 sess, nworkers, worker, out, handler, reply, ninputs, accepted,
                 wrote>>

\* The inputs written to the stdin of worker w's child, in order.
stdin_of(w) == SelectSeq(wrote, LAMBDA e : e.w = w)

\* The shell writes the output of the next input it has read.
shell_answers(w) ==
  /\ worker[w].kind = "exec" /\ child[w].state = "running"
  /\ child[w].answered < Len(stdin_of(w))
  /\ child' = [child EXCEPT ![w].answered = @ + 1,
                            ![w].pipe = Append(@, stdin_of(w)[child[w].answered + 1].id)]
  /\ UNCHANGED <<cvars, servin_client, conn, active_log_streams, active_exec_sessions,
                 sess, nworkers, worker, out, handler, reply, ninputs, accepted,
                 wrote>>

\* A child process exits on its own.
child_exits(w) ==
  /\ child[w].state = "running"
  /\ child' = [child EXCEPT ![w].state = "exited"]
  /\ UNCHANGED <<cvars, servin_client, conn, active_log_streams, active_exec_sessions,
                 sess, nworkers, worker, out, handler, reply, ninputs, accepted,
                 wrote>>

-----------------------------------------------------------------------------
(* ServinClient (src/webview_gui/servin_client.py): _run_command,           *)
(* list_containers, get_container, _get_container_state, start_container.   *)

\* cmd = [self.servin_path, "--dev"] + args on macOS, [self.servin_path] + args
\* elsewhere
cmd_of(args) ==
  IF platform_system = "Darwin" /\ args[1] # "--help"
  THEN <<servin_path, "--dev">> \o args
  ELSE <<servin_path>> \o args

\* One call of _run_command, as the log of invocations keeps it.
Invocation(args, outcome) ==
  [args |-> args, cmd |-> cmd_of(args), outcome |-> outcome,
   result |-> _run_command(args, outcome)]

\* list_containers() succeeds when `servin ls -d` ran and exited 0; it then
\* returns the units the runtime listed.
list_containers_ok(r) == ~r.raised /\ r.returncode = 0

\* get_container: the first listed unit whose id starts with container_id or
\* whose name is container_id; 0 when there is none (ServinError).
get_container(units, container_id) ==
  LET hits == {i \in 1..Len(units) :
                 \/ StartsWith(units[i].id, container_id)
                 \/ units[i].name = container_id}
  IN IF hits = {} THEN 0 ELSE CHOOSE i \in hits : \A j \in hits : i <= j

\* The test of _get_container_state on one parsed state file.
Matches(file, container_id) ==
  \/ StartsWith(get(file.state_data, "id", ""), container_id)
  \/ get(file.state_data, "name", "<None>") = container_id
  \/ StartsWith(file.filename, container_id)

\* _get_container_state: the files in os.listdir order; a file that is not
\* *.json is skipped, one that json.load rejects is skipped, the first that
\* matches is returned.  None (found = FALSE) when the scan ends, and also for
\* a directory that does not exist.
RECURSIVE _get_container_state(_, _)
_get_container_state(files, container_id) ==
  IF files = <<>> THEN [found |-> FALSE]
  ELSE LET file == Head(files) IN
       IF ~EndsWith(file.filename, ".json")
       THEN _get_container_state(Tail(files), container_id)
       ELSE IF file.corrupt
       THEN _get_container_state(Tail(files), container_id)
       ELSE IF Matches(file, container_id)
       THEN [found |-> TRUE, state_data |-> file.state_data]
       ELSE _get_container_state(Tail(files), container_id)

\* Python truthiness of a string field read with .get(): None and '' are false.
Truthy(v) == v # "<None>" /\ v # ""

\* run_cmd.extend(["--name", state_info['name']]) and its like: a flag and
\* its value, when the field is set.
name_flags(s) ==
  IF Truthy(get(s, "name", "<None>")) THEN <<"--name", s["name"]>> ELSE <<>>

hostname_flags(s) ==
  IF Truthy(get(s, "hostname", "<None>")) THEN <<"--hostname", s["hostname"]>> ELSE <<>>

\* start_container that passes every working directory on.
workdir_flags_always(s) ==
  IF Truthy(get(s, "work_dir", "<None>")) THEN <<"--workdir", s["work_dir"]>> ELSE <<>>

workdir_flags(s) ==
  IF Truthy(get(s, "work_dir", "<None>")) /\ s["work_dir"] # "/"
  THEN <<"--workdir", s["work_dir"]>> ELSE <<>>

\* for key, value in state_info['env'].items(): "--env", f"{key}={value}"
\* A dict is the sequence of its items in insertion order; a missing dict and
\* an empty one are both false.
RECURSIVE env_items(_)
env_items(items) ==
  IF items = <<>> THEN <<>>
  ELSE <<"--env", Head(items).key \o "=" \o Head(items).value>> \o env_items(Tail(items))

env_flags(s) == env_items(get(s, "env", <<>>))

\* start_container that writes a volume as container_path:host_path.
RECURSIVE volume_items_swapped(_)
volume_items_swapped(items) ==
  IF items = <<>> THEN <<>>
  ELSE <<"--volume", Head(items).value \o ":" \o Head(items).key>>
         \o volume_items_swapped(Tail(items))

\* for host_path, container_path in state_info['volumes'].items():
\*     "--volume", f"{host_path}:{container_path}"
RECURSIVE volume_items(_)
volume_items(items) ==
  IF items = <<>> THEN <<>>
  ELSE <<"--volume", Head(items).key \o ":" \o Head(items).value>>
         \o volume_items(Tail(items))

volume_flags(s) == volume_items(get(s, "volumes", <<>>))

\* One port mapping: skipped unless it is a dict with a host_port and a
\* container_port; protocol defaults to tcp.
port_mapping_flags(pm) ==
  IF ~pm.is_dict THEN <<>>
  ELSE LET host_port      == get(pm.d, "host_port", "")
           container_port == get(pm.d, "container_port", "")
           protocol       == get(pm.d, "protocol", "tcp")
       IN IF host_port # "" /\ container_port # ""
          THEN <<"-p", host_port \o ":" \o container_port \o "/" \o protocol>>
          ELSE <<>>

RECURSIVE port_items(_)
port_items(pms) ==
  IF pms = <<>> THEN <<>>
  ELSE port_mapping_flags(Head(pms)) \o port_items(Tail(pms))

port_flags(s) == port_items(get(s, "port_mappings", <<>>))

network_flags(s) ==
  IF Truthy(get(s, "network_mode", "<None>")) /\ s["network_mode"] # "bridge"
  THEN <<"--network", s["network_mode"]>> ELSE <<>>

memory_flags(s) ==
  IF Truthy(get(s, "memory", "<None>")) THEN <<"--memory", s["memory"]>> ELSE <<>>

cpus_flags(s) ==
  IF Truthy(get(s, "cpus", "<None>")) THEN <<"--cpus", s["cpus"]>> ELSE <<>>

\* The options of the run command, in the order start_container adds them.
options(s) ==
  name_flags(s) \o hostname_flags(s) \o workdir_flags(s) \o env_flags(s)
    \o volume_flags(s) \o port_flags(s) \o network_flags(s) \o memory_flags(s)
    \o cpus_flags(s)

\* if state_info.get('command'): run_cmd.append(state_info['command'])
command_part(s) ==
  IF Truthy(get(s, "command", "<None>")) THEN <<s["command"]>> ELSE <<>>

\* if state_info.get('args'): run_cmd.extend(state_info['args'])
args_part(s) == get(s, "args", <<>>)

\* start_container that appends the image after the command.
run_cmd_image_late(s) ==
  <<"run", "-d">> \o options(s) \o command_part(s) \o <<s["image"]>> \o args_part(s)

\* run_cmd as start_container builds it from a record that has an image.
run_cmd(s) ==
  <<"run", "-d">> \o options(s) \o <<s["image"]>> \o command_part(s) \o args_part(s)

\* start_container raises ServinError(f"Failed to start container: {e}").
Raise(e) == call' = [call EXCEPT !.pc = "raised", !.result = e]

\* start_container that does not look at the unit's status.
start_container_any_status(container_id) ==
  /\ call.pc = "idle"
  /\ \E outcome \in Outcomes :
       LET inv == Invocation(<<"ls", "-d">>, outcome)
           i   == get_container(containers, container_id)
       IN /\ invoked' = Append(invoked, inv)
          /\ IF ~list_containers_ok(inv.result)
             THEN call' = [call EXCEPT !.pc = "raised", !.container_id = container_id,
                                       !.result = "Error listing containers"]
             ELSE IF i = 0
             THEN call' = [call EXCEPT !.pc = "raised", !.container_id = container_id,
                                       !.result = "Container not found"]
             ELSE call' = [call EXCEPT !.pc = "state", !.container_id = container_id,
                                       !.container = containers[i]]
  /\ UNCHANGED <<platform_system, containers, state_dir>>
  /\ UNCHANGED <<servin_client, conn, active_log_streams, active_exec_sessions,
                 sess, nworkers, worker, child, out, handler, reply, ninputs,
                 accepted, wrote>>

\* start_container(container_id) up to the status test: get_container lists
\* the units with `ls -d` and picks the first that matches.
start_container(container_id) ==
  /\ call.pc = "idle"
  /\ \E outcome \in Outcomes :
       LET inv == Invocation(<<"ls", "-d">>, outcome)
           i   == get_container(containers, container_id)
       IN /\ invoked' = Append(invoked, inv)
          /\ IF ~list_containers_ok(inv.result)
             THEN call' = [call EXCEPT !.pc = "raised", !.container_id = container_id,
                                       !.result = "Error listing containers"]
             ELSE IF i = 0
             THEN call' = [call EXCEPT !.pc = "raised", !.container_id = container_id,
                                       !.result = "Container not found"]
             ELSE IF containers[i].status = "running"
             THEN call' = [call EXCEPT !.pc = "raised", !.container_id = container_id,
                                       !.container = containers[i],
                                       !.result = "already running"]
             ELSE call' = [call EXCEPT !.pc = "state", !.container_id = container_id,
                                       !.container = containers[i]]
  /\ UNCHANGED <<platform_system, containers, state_dir>>
  /\ UNCHANGED <<servin_client, conn, active_log_streams, active_exec_sessions,
                 sess, nworkers, worker, child, out, handler, reply, ninputs,
                 accepted, wrote>>

\* start_container that goes on without a launch record.
start_container_state_unchecked ==
  /\ call.pc = "state"
  /\ LET state_info == _get_container_state(state_dir, call.container_id) IN
     call' = [call EXCEPT !.pc = "rm",
                !.state_info = IF state_info.found THEN state_info
                               ELSE [found |-> TRUE, state_data |-> <<>>]]
  /\ UNCHANGED <<platform_system, containers, state_dir, invoked>>
  /\ UNCHANGED <<servin_client, conn, active_log_streams, active_exec_sessions,
                 sess, nworkers, worker, child, out, handler, reply, ninputs,
                 accepted, wrote>>

\* state_info = self._get_container_state(container_id)
\* if not state_info: raise ServinError("Could not find state information ...")
start_container_state ==
  /\ call.pc = "state"
  /\ LET state_info == _get_container_state(state_dir, call.container_id) IN
     IF state_info.found
     THEN call' = [call EXCEPT !.pc = "rm", !.state_info = state_info]
     ELSE Raise("Could not find state information")
  /\ UNCHANGED <<platform_system, containers, state_dir, invoked>>
  /\ UNCHANGED <<servin_client, conn, active_log_streams, active_exec_sessions,
                 sess, nworkers, worker, child, out, handler, reply, ninputs,
                 accepted, wrote>>

\* What `servin rm <container_id>` does to the runtime's units when it exits
\* 0: the unit the identifier names is gone.  Any other outcome removes
\* nothing.
rm(units, container_id, outcome) ==
  LET i == get_container(units, container_id) IN
  IF outcome.kind = "exit" /\ outcome.returncode = 0 /\ i # 0
  THEN [j \in 1..(Len(units) - 1) |-> IF j < i THEN units[j] ELSE units[j + 1]]
  ELSE units

\* self._run_command(["rm", container_id]): its exit code is not looked at
start_container_rm ==
  /\ call.pc = "rm"
  /\ \E outcome \in Outcomes :
       LET inv == Invocation(<<"rm", call.container_id>>, outcome) IN
       /\ invoked' = Append(invoked, inv)
       /\ containers' = rm(containers, call.container_id, outcome)
       /\ IF inv.result.raised
          THEN Raise(inv.result.error)
          ELSE call' = [call EXCEPT !.pc = "run"]
  /\ UNCHANGED <<platform_system, state_dir>>
  /\ UNCHANGED <<servin_client, conn, active_log_streams, active_exec_sessions,
                 sess, nworkers, worker, child, out, handler, reply, ninputs,
                 accepted, wrote>>

\* What `servin run -d ...` does to the runtime's units when it exits 0: a
\* new unit, with a new id and the name it was given, is running.
run(units, s, outcome) ==
  IF outcome.kind = "exit" /\ outcome.returncode = 0
  THEN Append(units, [id |-> "n1", name |-> get(s, "name", ""), status |-> "running"])
  ELSE units

\* run_cmd is built (state_info['image'] raises KeyError for a record with no
\* image) and run; a non-zero exit code raises.
start_container_run ==
  /\ call.pc = "run"
  /\ LET s == call.state_info.state_data IN
     IF "image" \notin DOMAIN s
     THEN /\ Raise("KeyError: image")
          /\ UNCHANGED <<invoked, containers>>
     ELSE \E outcome \in Outcomes :
            LET inv == Invocation(run_cmd(s), outcome) IN
            /\ invoked' = Append(invoked, inv)
            /\ containers' = run(containers, s, outcome)
            /\ IF inv.result.raised
               THEN call' = [call EXCEPT !.pc = "raised", !.run_cmd = run_cmd(s),
                                         !.result = inv.result.error]
               ELSE IF inv.result.returncode # 0
               THEN call' = [call EXCEPT !.pc = "raised", !.run_cmd = run_cmd(s),
                                         !.result = "Failed to start container"]
               ELSE call' = [call EXCEPT !.pc = "find", !.run_cmd = run_cmd(s)]
  /\ UNCHANGED <<platform_system, state_dir>>
  /\ UNCHANGED <<servin_client, conn, active_log_streams, active_exec_sessions,
                 sess, nworkers, worker, child, out, handler, reply, ninputs,
                 accepted, wrote>>

\* new_container = self.get_container(name or new id); a ServinError there is
\* caught and basic info returned instead: the call succeeds either way.
start_container_find ==
  /\ call.pc = "find"
  /\ \E outcome \in Outcomes :
       /\ invoked' = Append(invoked, Invocation(<<"ls", "-d">>, outcome))
       /\ call' = [call EXCEPT !.pc = "returned", !.result = "success"]
  /\ UNCHANGED <<platform_system, containers, state_dir>>
  /\ UNCHANGED <<servin_client, conn, active_log_streams, active_exec_sessions,
                 sess, nworkers, worker, child, out, handler, reply, ninputs,
                 accepted, wrote>>

-----------------------------------------------------------------------------
(* The launch records and state directories start_container is run on *)

Item(k, v) == [key |-> k, value |-> v]
PortMapping(d) == [is_dict |-> TRUE, d |-> d]
NotADict == [is_dict |-> FALSE, d |-> <<>>]

\* The fields of a launch record that hold a flag's value.
Fields == {"id", "name", "hostname", "work_dir", "env", "volumes",
           "port_mappings", "network_mode", "memory", "cpus", "image",
           "command", "args"}

\* Which fields a record has: all, all but the image, the barest.
Presences == {Fields, Fields \ {"image"}, {"id", "image"}}

FullRecords ==
  [id : {"c1a"},
   name : {"", "web"},
   hostname : {"", "h1"},
   work_dir : {"/", "/app"},
   env : {<<>>, <<Item("FOO", "bar"), Item("EMPTY", "")>>},
   volumes : {<<>>, <<Item("/host", "/data"), Item("/h2", "/d2")>>},
   port_mappings : {<<>>,
                    <<PortMapping([host_port |-> "8080", container_port |-> "80",
                                   protocol |-> "udp"])>>,
                    <<NotADict, PortMapping([container_port |-> "80"]),
                      PortMapping([host_port |-> "53", container_port |-> "53"])>>},
   network_mode : {"bridge", "host"},
   memory : {"", "512m"},
   cpus : {"", "2"},
   image : {"alpine"},
   command : {"", "sh", "alpine"},
   args : {<<>>, <<"-p">>, <<"-c", "ls">>}]

\* The launch records: every choice of values, with the fields it has.
Records == {[k \in P |-> r[k]] : r \in FullRecords, P \in Presences}

\* A state file: the runtime names it after the unit's id.
StateFile(state_data) ==
  [filename |-> state_data["id"] \o ".json", corrupt |-> FALSE,
   state_data |-> state_data]

\* A record with an id, a name and an image only.
Bare(id, name) == [id |-> id, name |-> name, image |-> "alpine"]

\* The files of the small state directories: two units whose ids share the
\* prefix "c1", a file json.load rejects, and a file that is not *.json.
Files ==
  {StateFile(Bare("c1a", "web")), StateFile(Bare("c1b", "db")),
   [filename |-> "c1c.json", corrupt |-> TRUE, state_data |-> <<>>],
   [filename |-> "c1.txt", corrupt |-> FALSE, state_data |-> <<>>]}

\* The sequences without repetition over a set, up to a length.
RECURSIVE Orders(_, _)
Orders(S, n) ==
  IF n = 0 THEN {<<>>}
  ELSE {<<>>} \cup {<<x>> \o rest : x \in S, rest \in Orders(S, n - 1)}

NoRepeat(seq) == \A i, j \in 1..Len(seq) : seq[i] = seq[j] => i = j

Directories == {d \in Orders(Files, MaxFiles) : NoRepeat(d)}

Unit(id, name, status) == [id |-> id, name |-> name, status |-> status]

\* What `servin ls -d` lists.
Listings ==
  {<<>>,
   <<Unit("c1a", "web", "exited"), Unit("c1b", "db", "exited"), Unit("zz9", "old", "exited")>>,
   <<Unit("c1b", "db", "exited"), Unit("c1a", "web", "created"), Unit("zz9", "old", "exited")>>,
   <<Unit("c1a", "web", "running"), Unit("zz9", "old", "exited")>>}

\* The identifiers a caller supplies: a truncated id, a name, and an id with
\* no state file.
ContainerIds == {"c1", "web", "zz9"}

\* The session layer at rest.
NoSessions ==
  /\ servin_client = TRUE
  /\ conn = [c \in Clients |-> "connected"]
  /\ active_log_streams = <<>>
  /\ active_exec_sessions = <<>>
  /\ sess = [s \in Workers |-> NewSession]
  /\ nworkers = 0
  /\ worker = [w \in Workers |-> NoWorker]
  /\ child = [w \in Workers |-> NoChild]
  /\ out = [w \in Workers |-> <<>>]
  /\ handler = Idle
  /\ reply = "none"
  /\ ninputs = 0
  /\ accepted = <<>>
  /\ wrote = <<>>

\* One stopped unit with any launch record, or the units and state
\* directories that put the lookups to the test.
InitStart ==
  /\ NoSessions
  /\ call = NoCall
  /\ invoked = <<>>
  /\ \/ /\ platform_system = "Linux"
        /\ containers = <<Unit("c1a", "web", "exited")>>
        /\ \E r \in Records : state_dir = <<StateFile(r)>>
     \/ /\ platform_system \in {"Linux", "Darwin"}
        /\ containers \in Listings
        /\ state_dir \in Directories

NextStart ==
  \/ \E container_id \in ContainerIds : start_container(container_id)
  \/ start_container_state
  \/ start_container_rm
  \/ start_container_run
  \/ start_container_find

SpecStart == InitStart /\ [][NextStart]_vars

-----------------------------------------------------------------------------
\* The log side: the log handlers, disconnect, the log workers, their children.
NextLogs ==
  \/ \E c \in Clients, u \in Requests : handle_start_logs(c, u)
  \/ handle_start_logs_flag
  \/ handle_start_logs_put
  \/ \E c \in Clients, u \in Requests : handle_stop_logs(c, u)
  \/ handle_stop_logs_flag
  \/ handle_stop_logs_del
  \/ \E c \in Clients : handle_disconnect(c)
  \/ cleanup_flag_logs
  \/ cleanup_flag_execs
  \/ cleanup_remove_logs
  \/ cleanup_del_log
  \/ cleanup_remove_execs
  \/ \E w \in Workers : stream_logs_thread(w)
  \/ \E w \in Workers : follower_writes(w)
  \/ \E w \in Workers : child_exits(w)

\* The exec side: the exec handlers, disconnect, the exec workers, their children.
NextExec ==
  \/ \E c \in Clients, u \in Requests : handle_start_exec(c, u)
  \/ handle_start_exec_flag
  \/ handle_start_exec_put
  \/ \E c \in Clients, u \in Requests : handle_exec_input(c, u)
  \/ handle_exec_input_append
  \/ \E c \in Clients, u \in Requests : handle_stop_exec(c, u)
  \/ handle_stop_exec_flag
  \/ handle_stop_exec_del
  \/ \E c \in Clients : handle_disconnect(c)
  \/ cleanup_flag_logs
  \/ cleanup_flag_execs
  \/ cleanup_remove_logs
  \/ cleanup_remove_execs
  \/ cleanup_del_exec
  \/ \E w \in Workers : exec_session_thread(w)
  \/ \E w \in Workers : shell_answers(w)
  \/ \E w \in Workers : child_exits(w)

Next == NextLogs \/ NextExec

Spec     == Init /\ [][Next]_vars
SpecLogs == Init /\ [][NextLogs]_vars
SpecExec == Init /\ [][NextExec]_vars

\* Both registries under start and disconnect alone: the clients start log
\* and exec sessions and disconnect; nothing is stopped and no input is sent,
\* so that the exec worker never has a command to write.
NextDisconnect ==
  \/ \E c \in Clients, u \in Units : handle_start_logs(c, u)
  \/ handle_start_logs_flag
  \/ handle_start_logs_put
  \/ \E c \in Clients, u \in Units : handle_start_exec(c, u)
  \/ handle_start_exec_flag
  \/ handle_start_exec_put
  \/ \E c \in Clients : handle_disconnect(c)
  \/ cleanup_flag_logs
  \/ cleanup_flag_execs
  \/ cleanup_remove_logs
  \/ cleanup_del_log
  \/ cleanup_remove_execs
  \/ cleanup_del_exec
  \/ \E w \in Workers : stream_logs_thread(w)
  \/ \E w \in Workers : exec_session_start(w)
  \/ \E w \in Workers : exec_session_loop(w)
  \/ \E w \in Workers : exec_session_poll(w)
  \/ \E w \in Workers : exec_session_finally(w)
  \/ \E w \in Workers : exec_session_del(w)
  \/ \E w \in Workers : follower_writes(w)
  \/ \E w \in Workers : child_exits(w)

SpecDisconnect == Init /\ [][NextDisconnect]_vars

\* The server process ends: socketio.run returns and the interpreter exits.
\* Every worker is a daemon thread (thread.daemon = True), which the
\* interpreter abandons where it stands, its `finally` blocks not run; the
\* connections close; nothing else runs at exit.
shutdown ==
  /\ conn' = [c \in Clients |-> "disconnected"]
  /\ handler' = Idle
  /\ worker' = [w \in Workers |->
                  IF worker[w].pc \in {"none", "done"} THEN worker[w]
                  ELSE [worker[w] EXCEPT !.pc = "killed"]]
  /\ UNCHANGED <<cvars, servin_client, active_log_streams, active_exec_sessions, sess,
                 nworkers, child, out, reply, ninputs, accepted, wrote>>

\* One client and both kinds of session: every handler but disconnect, the
\* workers, their children, and the end of the server process.
OneClient == CHOOSE c \in Clients : TRUE

NextOneClient ==
  \/ \E u \in Requests : handle_start_logs(OneClient, u)
  \/ handle_start_logs_flag
  \/ handle_start_logs_put
  \/ \E u \in Requests : handle_stop_logs(OneClient, u)
  \/ handle_stop_logs_flag
  \/ handle_stop_logs_del
  \/ \E u \in Requests : handle_start_exec(OneClient, u)
  \/ handle_start_exec_flag
  \/ handle_start_exec_put
  \/ \E u \in Requests : handle_exec_input(OneClient, u)
  \/ handle_exec_input_append
  \/ \E u \in Requests : handle_stop_exec(OneClient, u)
  \/ handle_stop_exec_flag
  \/ handle_stop_exec_del
  \/ \E w \in Workers : stream_logs_thread(w)
  \/ \E w \in Workers : exec_session_thread(w)
  \/ \E w \in Workers : follower_writes(w)
  \/ \E w \in Workers : shell_answers(w)
  \/ \E w \in Workers : child_exits(w)
  \/ shutdown

SpecOneClient == Init /\ [][NextOneClient]_vars

\* Threads are scheduled fairly: a handler or worker that can take its next
\* step eventually takes it.  Clients and child processes owe nothing: a child
\* may stay alive and silent forever.
HandlerStepsLogs ==
  \/ handle_start_logs_flag
  \/ handle_start_logs_put
  \/ handle_stop_logs_flag
  \/ handle_stop_logs_del
  \/ cleanup_flag_logs
  \/ cleanup_flag_execs
  \/ cleanup_remove_logs
  \/ cleanup_del_log
  \/ cleanup_remove_execs

FairSpecLogs ==
  /\ SpecLogs
  /\ WF_vars(HandlerStepsLogs)
  /\ \A w \in Workers : WF_vars(stream_logs_thread(w))

HandlerStepsExec ==
  \/ handle_start_exec_flag
  \/ handle_start_exec_put
  \/ handle_exec_input_append
  \/ handle_stop_exec_flag
  \/ handle_stop_exec_del
  \/ cleanup_flag_logs
  \/ cleanup_flag_execs
  \/ cleanup_remove_logs
  \/ cleanup_remove_execs
  \/ cleanup_del_exec

FairSpecExec ==
  /\ SpecExec
  /\ WF_vars(HandlerStepsExec)
  /\ \A w \in Workers : WF_vars(exec_session_thread(w))

-----------------------------------------------------------------------------
(* Properties *)

\* Worker w runs the session dict sess[w]: sess[w].stop is that session's
\* stop_requested, whether or not the dict is still in a registry.
Spawned(w) == worker[w].kind # "none"
Ended(w)   == worker[w].pc = "done"
InLoop(w)  == worker[w].pc \in {"loop", "readline", "write", "poll"}

\* A terminal message: type 'system' or 'error', the exec worker's opening
\* announcement aside.
Terminal(m) == m.type \in {"system", "error"} /\ m.data # "Starting session"
Terminals(w) == Cardinality({i \in 1..Len(out[w]) : Terminal(out[w][i])})

OwnedBy(c, key) == StartsWith(key, c \o ":")

\* C1: a worker that polls its loop condition after its session's stop was
\* requested (here: by a preempting start_*) leaves the loop, so that only the
\* newest worker of a key keeps running.
C1_PreemptedWorkerExits ==
  [][\A w \in Workers :
       (worker[w].pc = "loop" /\ worker'[w].pc # "loop" /\ sess[w].stop)
         => ~InLoop(w)']_vars

\* C2: once a session's stop_requested is set, its worker emits no further
\* 'stream' or 'output' message.
C2_NoDataAfterStop ==
  [][\A w \in Workers :
       sess[w].stop =>
         /\ Count(out'[w], "stream") = Count(out[w], "stream")
         /\ Count(out'[w], "output") = Count(out[w], "output")]_vars

\* C3: a worker whose session was asked to stop ends having emitted exactly
\* one terminal message.
C3_ExactlyOneTerminal ==
  \A w \in Workers : (Ended(w) /\ sess[w].stop) => Terminals(w) = 1

\* C4: exec_input for a key that is not in active_exec_sessions replies
\* 'No active exec session' and changes nothing: no registry, no session dict
\* or queue, no worker, no child, no message.
C4_ExecInputNoSession ==
  [][\A c \in Clients, u \in Units :
       (~HasKey(active_exec_sessions, StreamKey(c, u)) /\ handle_exec_input(c, u))
         => /\ reply' = "error: No active exec session"
            /\ handler' = Idle
            /\ UNCHANGED <<active_log_streams, active_exec_sessions, sess, nworkers,
                           worker, child, out, ninputs, accepted, wrote>>]_vars

\* exec_input was refused for want of a session while other sessions run.
C4_Witness ==
  /\ reply = "error: No active exec session"
  /\ handler.pc = "idle"
  /\ active_exec_sessions # <<>>
  /\ ninputs > 0

\* C5: once on_disconnect(c) has run to its end, no registry holds a session
\* of c.
C5_DisconnectRemovesAll ==
  \A c \in Clients :
    (conn[c] = "disconnected" /\ handler.pc = "idle") =>
      /\ \A i \in 1..Len(active_log_streams) : ~OwnedBy(c, active_log_streams[i].key)
      /\ \A i \in 1..Len(active_exec_sessions) : ~OwnedBy(c, active_exec_sessions[i].key)

\* C6: after a client disconnects, each of its workers eventually ends.
C6_DisconnectStopsWorkers ==
  \A w \in Workers : \A c \in Clients :
    (worker[w].sid = c /\ conn[c] = "disconnected") ~> Ended(w)

\* C7: after stop_logs (flag set, key removed), the log worker eventually ends,
\* also when the follower stays alive and silent.
C7_StopLogsStopsWorker ==
  \A w \in Workers :
    (worker[w].kind = "log" /\ sess[w].stop
       /\ ~HasKey(active_log_streams, worker[w].key)) ~> Ended(w)

\* C8: no worker ends without a terminal message.
C8_NeverEndsSilently ==
  \A w \in Workers : Ended(w) => Terminals(w) >= 1

\* C9: the inputs accepted for a session are written to that session's child,
\* each once and in the order they were accepted.
C9_InputsFIFO ==
  /\ \A i \in 1..Len(wrote) : wrote[i].w = accepted[wrote[i].id]
  /\ \A i, j \in 1..Len(wrote) :
       (i < j /\ accepted[wrote[i].id] = accepted[wrote[j].id])
         => wrote[i].id < wrote[j].id

\* C10: an 'output' message carrying the output of an input comes after the
\* 'input' echo of that input.
C10_EchoBeforeOutput ==
  \A w \in Workers : \A i \in 1..Len(out[w]) :
    out[w][i].type = "output" =>
      \E j \in 1..(i - 1) : out[w][j].type = "input" /\ out[w][j].tag = out[w][i].tag

C10_Witness ==
  \E w \in Workers : \E i \in 1..Len(out[w]) :
    out[w][i].type = "output" /\ out[w][i].tag > 0

-----------------------------------------------------------------------------
(* Properties of start_container *)

\* The call has built its argument vector from the launch record it found.
Built == call.run_cmd # <<>>
Record == call.state_info.state_data

\* seq holds a and b side by side.
Adjacent(seq, a, b) == \E i \in 1..(Len(seq) - 1) : seq[i] = a /\ seq[i + 1] = b

\* C11: the argument vector holds the pair ('--volume', 'h:c') for every
\* volume entry {h: c} and ('--env', 'k=v') for every env entry {k: v} of the
\* record, and ends with the image when the record has no command and no args.
C11_VolumesEnvImage ==
  Built =>
    LET volumes == get(Record, "volumes", <<>>)
        env     == get(Record, "env", <<>>)
    IN /\ \A i \in 1..Len(volumes) :
            Adjacent(call.run_cmd, "--volume", volumes[i].key \o ":" \o volumes[i].value)
       /\ \A i \in 1..Len(env) :
            Adjacent(call.run_cmd, "--env", env[i].key \o "=" \o env[i].value)
       /\ (~Truthy(get(Record, "command", "<None>")) /\ get(Record, "args", <<>>) = <<>>)
            => call.run_cmd[Len(call.run_cmd)] = Record["image"]

\* A vector built from a record with volumes and env entries and with neither
\* command nor args.
C11_Witness ==
  /\ Built
  /\ get(Record, "volumes", <<>>) # <<>>
  /\ get(Record, "env", <<>>) # <<>>
  /\ ~Truthy(get(Record, "command", "<None>"))
  /\ get(Record, "args", <<>>) = <<>>

\* The option flags start_container knows, each with the test that its field
\* holds a value other than the default.
OptionFlags ==
  {"--name", "--hostname", "--workdir", "--env", "--volume", "-p", "--network",
   "--memory", "--cpus"}

NonDefault(s, flag) ==
  CASE flag = "--name"     -> Truthy(get(s, "name", "<None>"))
    [] flag = "--hostname" -> Truthy(get(s, "hostname", "<None>"))
    [] flag = "--workdir"  -> Truthy(get(s, "work_dir", "<None>")) /\ s["work_dir"] # "/"
    [] flag = "--env"      -> get(s, "env", <<>>) # <<>>
    [] flag = "--volume"   -> get(s, "volumes", <<>>) # <<>>
    [] flag = "-p"         -> get(s, "port_mappings", <<>>) # <<>>
    [] flag = "--network"  -> Truthy(get(s, "network_mode", "<None>"))
                                /\ s["network_mode"] # "bridge"
    [] flag = "--memory"   -> Truthy(get(s, "memory", "<None>"))
    [] flag = "--cpus"     -> Truthy(get(s, "cpus", "<None>"))

Contains(seq, x) == \E i \in 1..Len(seq) : seq[i] = x

\* The record's command and args as the vector must end with them.
OriginalTail(s) ==
  (IF Truthy(get(s, "command", "<None>")) THEN <<s["command"]>> ELSE <<>>)
    \o get(s, "args", <<>>)

\* Where the image reference stands in the vector: right before the tail.
ImageAt == Len(call.run_cmd) - Len(OriginalTail(Record))

C13_FlagsImageCommandArgs ==
  Built =>
    /\ ImageAt >= 3
    /\ call.run_cmd[ImageAt] = Record["image"]
    /\ SubSeq(call.run_cmd, ImageAt + 1, Len(call.run_cmd)) = OriginalTail(Record)
    /\ SubSeq(call.run_cmd, 1, 2) = <<"run", "-d">>
    /\ (ImageAt - 3) % 2 = 0
    /\ \A i \in 3..(ImageAt - 1) : (i % 2 = 1) => call.run_cmd[i] \in OptionFlags

\* A vector with options, a command that is spelled like the image, and args.
C13_Witness ==
  /\ Built
  /\ ImageAt > 3
  /\ get(Record, "command", "<None>") = Record["image"]
  /\ Len(get(Record, "args", <<>>)) = 2

\* No readable state file holds a record that matches container_id.
NoRecordMatches(container_id) ==
  \A i \in 1..Len(state_dir) :
    ~(/\ EndsWith(state_dir[i].filename, ".json")
      /\ ~state_dir[i].corrupt
      /\ Matches(state_dir[i], container_id))

\* The invocations of `servin rm` and `servin run` so far.
Relaunches == {i \in 1..Len(invoked) : invoked[i].args[1] \in {"rm", "run"}}

\* C14: when no persisted launch record matches the requested unit,
\* start_container fails, for want of state information once the unit has
\* been resolved, and invokes neither `rm` nor `run`.
C14_NoRecordNoRelaunch ==
  (call.pc # "idle" /\ NoRecordMatches(call.container_id)) =>
    /\ call.pc \in {"state", "raised"}
    /\ Relaunches = {}
    /\ call.pc = "raised" =>
         call.result \in {"Error listing containers", "Container not found",
                          "already running", "Could not find state information"}

\* The unit was resolved and is not running, the state directory holds
\* files, none matches, and the call has failed for want of state information.
C14_Witness ==
  /\ call.pc = "raised"
  /\ call.result = "Could not find state information"
  /\ state_dir # <<>>
  /\ NoRecordMatches(call.container_id)

\* C15: _run_command returns a result that carries the child's exit code,
\* whatever the code, and raises only when the child outlived the timeout or
\* could not be launched.
C15_NonZeroExitIsAResult ==
  \A i \in 1..Len(invoked) :
    LET e == invoked[i] IN
    /\ e.outcome.kind = "exit" =>
         ~e.result.raised /\ e.result.returncode = e.outcome.returncode
    /\ e.result.raised => e.outcome.kind \in {"timeout", "launch"}

\* An invoked program exited non-zero and _run_command returned its result.
C15_Witness ==
  \E i \in 1..Len(invoked) :
    /\ invoked[i].outcome.kind = "exit"
    /\ invoked[i].outcome.returncode # 0
    /\ ~invoked[i].result.raised
    /\ invoked[i].result.returncode = invoked[i].outcome.returncode

\* The orders in which os.listdir may return the files of the directory.
ScanOrders ==
  LET files == {state_dir[i] : i \in 1..Len(state_dir)} IN
  {d \in Orders(files, Len(state_dir)) : Len(d) = Len(state_dir) /\ NoRepeat(d)}

\* The readable state files that match container_id.
MatchingFiles(container_id) ==
  {i \in 1..Len(state_dir) :
     /\ EndsWith(state_dir[i].filename, ".json")
     /\ ~state_dir[i].corrupt
     /\ Matches(state_dir[i], container_id)}

\* C20: when more than one record matches the identifier, the lookup returns
\* not-found or a record that is the same for every scan order of the state
\* directory.
C20_LookupIgnoresScanOrder ==
  (call.pc = "rm" /\ Cardinality(MatchingFiles(call.container_id)) > 1) =>
    \/ ~call.state_info.found
    \/ \A d \in ScanOrders :
         _get_container_state(d, call.container_id) = call.state_info

-----------------------------------------------------------------------------
(* Properties of the registries *)

\* C16: the registry operations are atomic with respect to each other: a
\* handler between its test of a key and its use of it finds the key still
\* there, the disconnect handler's iteration finds the dict the size it was,
\* and no handler fails part-way.
C16_RegistryOpsAtomic ==
  /\ handler.pc \in {"stop_logs_flag", "stop_logs_del"}
       => HasKey(active_log_streams, handler.key)
  /\ handler.pc \in {"stop_exec_flag", "stop_exec_del"}
       => HasKey(active_exec_sessions, handler.key)
  /\ handler.pc = "cleanup_flag_logs" => Len(active_log_streams) = handler.used
  /\ handler.pc = "cleanup_flag_execs" => Len(active_exec_sessions) = handler.used
  /\ handler.pc = "cleanup_del_log"
       => HasKey(active_log_streams, handler.streams_to_remove[handler.it])
  /\ handler.pc = "cleanup_del_exec"
       => HasKey(active_exec_sessions, handler.sessions_to_remove[handler.it])
  /\ reply \notin {"raised: KeyError", "raised: RuntimeError"}

\* The disconnect handler is at work.
InCleanup ==
  handler.pc \in {"cleanup_flag_logs", "cleanup_flag_execs", "cleanup_remove_logs",
                  "cleanup_del_log", "cleanup_remove_execs", "cleanup_del_exec"}

C18_MessagesToOriginator ==
  \A w \in Workers : \A i \in 1..Len(out[w]) :
    /\ out[w][i].room = worker[w].sid
    /\ out[w][i].room \in Clients
    /\ OwnedBy(out[w][i].room, worker[w].key)

\* Workers of two different clients have both emitted messages for the same
\* unit.
C18_Witness ==
  \E v, w \in Workers :
    /\ worker[v].sid # worker[w].sid
    /\ worker[v].container_id = worker[w].container_id
    /\ worker[v].kind # worker[w].kind
    /\ Len(out[v]) >= 2
    /\ Len(out[w]) >= 2

\* What worker w reads as its stop condition:
\* active_*.get(key, {}).get('stop', True)
StopRead(w) ==
  StopFlag(IF worker[w].kind = "log" THEN active_log_streams
           ELSE active_exec_sessions, worker[w].key)

\* C19: the stop condition a worker reads for its session is monotonic: once
\* it is true it is never false again while the worker is in its loop, a new
\* start for the same key included.
C19_StopConditionMonotonic ==
  [][\A w \in Workers :
       (InLoop(w) /\ InLoop(w)' /\ StopRead(w)) => StopRead(w)']_vars

-----------------------------------------------------------------------------
(* Properties of the workers' endings *)

\* The registry worker w's session was registered in.
RegistryOf(w) ==
  IF worker[w].kind = "log" THEN active_log_streams ELSE active_exec_sessions

\* The sessions whose entry a step removes from a registry.
Removed(d, e) == {d[i].s : i \in {j \in 1..Len(d) : ~HasKey(e, d[j].key)}}

\* C21: the final cleanup of a worker removes only its own session's entry:
\* never the entry of a newer session registered under the same key.
C21_CleanupRemovesOwnSession ==
  [][\A w \in Workers :
       (worker[w].pc = "del" /\ worker'[w].pc = "done") =>
         /\ Removed(active_log_streams, active_log_streams') \subseteq {w}
         /\ Removed(active_exec_sessions, active_exec_sessions') \subseteq {w}]_vars

\* Worker w dequeued input id (it holds it as `command`) or wrote it to its
\* child.
Consumed(w, id) ==
  \/ worker[w].command = id
  \/ \E i \in 1..Len(wrote) : wrote[i].id = id /\ wrote[i].w = w

\* C22: an input accepted for the newest session of a key is never dequeued
\* nor written to its child by the worker of an earlier session of that key.
C22_InputsToNewestSession ==
  \A id \in 1..Len(accepted) : \A w \in Workers :
    (w < accepted[id] /\ worker[w].key = worker[accepted[id]].key)
      => ~Consumed(w, id)

\* The 'input' echoes among a worker's messages.
Echoes(msgs) == Count(msgs, "input")

\* C23: once the child of an exec worker has exited, the worker dequeues no
\* input, writes none to the child's input pipe and echoes none.
C23_NoInputAfterChildExit ==
  [][\A w \in Workers :
       (worker[w].kind = "exec" /\ child[w].state = "exited") =>
         /\ worker'[w].command # 0 => worker'[w].command = worker[w].command
         /\ stdin_of(w)' = stdin_of(w)
         /\ Echoes(out'[w]) = Echoes(out[w])]_vars

\* What get_logs returns when the unit does not exist or its history cannot
\* be fetched.
Unavailable == "logs unavailable"

\* C24: a log worker whose history fetch failed emits an error message and
\* stops at once: it emits no 'initial' batch and launches no follower.
C24_FetchFailureStopsWorker ==
  \A w \in Workers :
    (worker[w].kind = "log" /\ worker[w].logs = Unavailable) =>
      /\ Count(out[w], "initial") = 0
      /\ Count(out[w], "error") >= 1
      /\ child[w].state = "none"
      /\ worker[w].pc \in {"cleanup", "del", "done"}

\* C25: after stop_exec (flag set, key removed) the exec worker eventually
\* ends, child terminated and 'Exec session ended.' emitted, whether or not
\* the child writes anything.
C25_StopExecStopsWorker ==
  \A w \in Workers :
    (worker[w].kind = "exec" /\ sess[w].stop
       /\ ~HasKey(active_exec_sessions, worker[w].key))
      ~> (Ended(w) /\ child[w].state # "running"
            /\ \E i \in 1..Len(out[w]) : out[w][i].data = "Exec session ended.")

\* The worker is past the `finally` that terminates its child.
PastFinally(w) == worker[w].pc \in {"del", "done"}

\* C26: a worker that has finished, by whatever path, has terminated and
\* waited for the child it launched: no worker has ended with its child
\* still running or unreaped.
C26_ChildReapedAtEnd ==
  \A w \in Workers :
    PastFinally(w) => child[w].state \in {"none", "reaped"}

\* An exec worker has ended on an exception in its loop, a second on a
\* stop request, and both had launched a child.
C26_Witness ==
  \E v, w \in Workers :
    /\ Ended(v) /\ Ended(w)
    /\ child[v].state = "reaped" /\ child[w].state = "reaped"
    /\ Count(out[v], "error") = 1
    /\ Count(out[w], "error") = 0 /\ sess[w].stop

\* A step in which worker w's child cannot be launched, or in which the
\* worker's write to its child fails.
Fails(w) ==
  \/ worker[w].pc = "start" /\ worker'[w].pc \in {"cleanup", "finally"}
  \/ worker[w].pc = "write" /\ worker'[w].pc = "finally"

\* The last message worker w emitted is an 'error' to its client.
ErrorReported(msgs, w) ==
  /\ msgs # <<>>
  /\ msgs[Len(msgs)].type = "error"
  /\ msgs[Len(msgs)].room = worker[w].sid

\* The worker is on its way out: in its `finally` blocks or ended.
Leaving(w) == worker[w].pc \in {"cleanup", "finally", "del", "done"}

\* The session of worker w has an entry in its registry.
Registered(w) ==
  \E i \in 1..Len(RegistryOf(w)) : RegistryOf(w)[i].s = w

Resolved == call.container.id # ""

\* C28: when start_container has failed, the unit it resolved is still among
\* the runtime's units: the old unit is removed only by a call that succeeds.
C28_FailureKeepsUnit ==
  (call.pc = "raised" /\ Resolved) => Contains(containers, call.container)

\* C29: the launch record start_container goes on with belongs to the unit
\* get_container resolved: both lookups select the same unit.
C29_RecordOfResolvedUnit ==
  (call.pc = "rm" /\ Resolved) => get(Record, "id", "") = call.container.id

\* C30: a log worker emits exactly one 'initial' batch, as its first message:
\* none before its first step, one ever after, and every 'stream' message
\* comes after it.
C30_OneInitialFirst ==
  \A w \in Workers :
    worker[w].kind = "log" =>
      /\ Count(out[w], "initial") = (IF worker[w].pc = "start" THEN 0 ELSE 1)
      /\ \A i \in 1..Len(out[w]) :
           out[w][i].type = "stream" =>
             \E j \in 1..(i - 1) : out[w][j].type = "initial"

\* A log worker has ended after streaming a line.
C30_Witness ==
  \E w \in Workers :
    /\ worker[w].kind = "log" /\ Ended(w)
    /\ Count(out[w], "stream") >= 1
    /\ out[w][1].type = "initial"

-----------------------------------------------------------------------------
(* Properties of the exec worker's opening and of the facade *)

\* C31: an exec worker opens with the 'system' session-start message; every
\* 'input' and 'output' message comes after that message and a 'prompt', in
\* this order; and a worker that emitted a 'prompt' had launched its child.
C31_SystemPromptFirst ==
  \A w \in Workers :
    worker[w].kind = "exec" =>
      /\ worker[w].pc # "start" =>
           (out[w][1].type = "system" /\ out[w][1].data = "Starting session")
      /\ \A i \in 1..Len(out[w]) :
           out[w][i].type \in {"input", "output"} =>
             (i > 2 /\ out[w][1].type = "system" /\ out[w][2].type = "prompt")
      /\ Count(out[w], "prompt") > 0 => child[w].state # "none"

\* One exec worker has echoed an input and passed on its output; another
\* could not launch its child.
C31_Witness ==
  \E v, w \in Workers :
    /\ worker[w].kind = "exec"
    /\ Count(out[w], "input") > 0 /\ Count(out[w], "output") > 0
    /\ worker[v].kind = "exec" /\ worker[v].pc # "start" /\ child[v].state = "none"

\* The thread of worker w was abandoned when the server process ended.
Killed(w) == worker[w].pc = "killed"

\* C32: once the server process has shut down no child a worker launched is
\* still running.
C32_ShutdownTerminatesChildren ==
  \A w \in Workers : Killed(w) => child[w].state # "running"

\* C33: start_container on a unit whose status is 'running' fails, invokes
\* neither `rm` nor `run`, and leaves the unit among the runtime's units.
C33_RunningUnitUntouched ==
  (call.pc # "idle" /\ call.container.status = "running") =>
    /\ call.pc = "raised"
    /\ call.result = "already running"
    /\ Relaunches = {}
    /\ Contains(containers, call.container)

\* The call was refused for a running unit whose launch record is at hand.
C33_Witness ==
  /\ call.pc = "raised"
  /\ call.container.status = "running"
  /\ ~NoRecordMatches(call.container_id)

\* The sessions that have an entry in registry d.
Present(d) == {d[i].s : i \in 1..Len(d)}

\* C34: when no facade operation is in flight, every session present in a
\* registry has stop_requested = false: an operation that set a session's
\* flag has removed or replaced the session before it ended.
C34_PresentMeansNotStopped ==
  handler.pc = "idle" =>
    \A s \in Present(active_log_streams) \cup Present(active_exec_sessions) :
      ~sess[s].stop

\* A step of a worker thread.
WorkerStep == \E w \in Workers : stream_logs_thread(w) \/ exec_session_thread(w)

\* C35: a worker's step leaves every session's stop flag as it was and
\* appends to no input queue: the one change it makes to a session's data is
\* to take the item at the head of its input queue.
C35_WorkersOnlyDequeue ==
  [][\/ \A s \in Workers :
          /\ sess'[s].stop = sess[s].stop
          /\ sess'[s].has_queue = sess[s].has_queue
          /\ \/ sess'[s].input_queue = sess[s].input_queue
             \/ /\ sess[s].input_queue # <<>>
                /\ sess'[s].input_queue = Tail(sess[s].input_queue)
     \/ ~WorkerStep]_vars

\* A worker has written an input it took from a queue and has ended on a
\* stop request, with an input still queued for its session.
C35_Witness ==
  \E w \in Workers :
    /\ Ended(w) /\ sess[w].stop
    /\ stdin_of(w) # <<>>
    /\ sess[w].input_queue # <<>>

\* A step of a handler that serves a request of client c: the handler's
\* first step, or a later step of the handler in flight for c.
FacadeStep(c) ==
  \/ \E u \in Requests :
       \/ handle_start_logs(c, u) \/ handle_stop_logs(c, u)
       \/ handle_start_exec(c, u) \/ handle_exec_input(c, u) \/ handle_stop_exec(c, u)
  \/ handle_disconnect(c)
  \/ /\ handler.sid = c
     /\ \/ handle_start_logs_flag \/ handle_start_logs_put
        \/ handle_stop_logs_flag \/ handle_stop_logs_del
        \/ handle_start_exec_flag \/ handle_start_exec_put
        \/ handle_exec_input_append
        \/ handle_stop_exec_flag \/ handle_stop_exec_del
        \/ cleanup_flag_logs \/ cleanup_flag_execs \/ cleanup_remove_logs
        \/ cleanup_del_log \/ cleanup_remove_execs \/ cleanup_del_exec

\* The entries of registry d that client c does not own are in e as they
\* are in d, and their sessions' flag and queue are as they were.
OthersKept(c, d, e) ==
  \A i \in 1..Len(d) :
    ~OwnedBy(c, d[i].key) =>
      /\ \E j \in 1..Len(e) : e[j] = d[i]
      /\ sess'[d[i].s] = sess[d[i].s]

\* C36: a step of an operation issued by one client leaves every registry
\* entry of every other client as it was: present, with its stop flag and
\* its input queue.
C36_OtherClientsUntouched ==
  [][\A c \in Clients :
       \/ /\ OthersKept(c, active_log_streams, active_log_streams')
          /\ OthersKept(c, active_exec_sessions, active_exec_sessions')
       \/ ~FacadeStep(c)]_vars

\* One client's disconnect has run to its end, having removed a session of
\* its own, and another client's exec session is registered, not stopped,
\* with an input in its queue.
C36_Witness ==
  /\ reply = "disconnected"
  /\ \E w \in Workers :
       Spawned(w) /\ conn[worker[w].sid] = "disconnected" /\ sess[w].stop
  /\ \E i \in 1..Len(active_exec_sessions) :
       LET e == active_exec_sessions[i] IN
       /\ conn[worker[e.s].sid] = "connected"
       /\ ~sess[e.s].stop
       /\ sess[e.s].input_queue # <<>>

\* Client c sends one of the five requests with no container_id.
EmptyRequest(c) ==
  \/ handle_start_logs(c, NoUnit) \/ handle_stop_logs(c, NoUnit)
  \/ handle_start_exec(c, NoUnit) \/ handle_exec_input(c, NoUnit)
  \/ handle_stop_exec(c, NoUnit)

\* C37: a start_logs, stop_logs, start_exec, exec_input or stop_exec request
\* with no container_id is answered 'Container ID required' and leaves both
\* registries, every session and the workers as they were.
C37_EmptyIdRejected ==
  [][\A c \in Clients :
       EmptyRequest(c) =>
         /\ reply' = "error: Container ID required"
         /\ handler' = Idle
         /\ UNCHANGED <<active_log_streams, active_exec_sessions, sess, nworkers,
                        worker, child, out>>]_vars

\* A request with no container_id was refused while a log session and an
\* exec session were registered.
C37_Witness ==
  /\ reply = "error: Container ID required"
  /\ handler.pc = "idle"
  /\ active_log_streams # <<>>
  /\ active_exec_sessions # <<>>

\* A step of start_logs or stop_logs; a step of start_exec, exec_input or
\* stop_exec.
LogFacadeStep ==
  \/ \E c \in Clients, u \in Requests : handle_start_logs(c, u) \/ handle_stop_logs(c, u)
  \/ handle_start_logs_flag \/ handle_start_logs_put
  \/ handle_stop_logs_flag \/ handle_stop_logs_del

ExecFacadeStep ==
  \/ \E c \in Clients, u \in Requests :
       handle_start_exec(c, u) \/ handle_exec_input(c, u) \/ handle_stop_exec(c, u)
  \/ handle_start_exec_flag \/ handle_start_exec_put
  \/ handle_exec_input_append
  \/ handle_stop_exec_flag \/ handle_stop_exec_del

\* Registry d and the sessions in it are after the step as before.
Untouched(d, e) == e = d /\ \A s \in Present(d) : sess'[s] = sess[s]

\* C38: no step of start_logs or stop_logs changes the exec registry or a
\* session in it, and no step of start_exec, exec_input or stop_exec changes
\* the log registry or a session in it.
C38_LogAndExecIndependent ==
  [][/\ Untouched(active_exec_sessions, active_exec_sessions') \/ ~LogFacadeStep
     /\ Untouched(active_log_streams, active_log_streams') \/ ~ExecFacadeStep]_vars

\* stop_logs has removed the log session of a key whose exec session is
\* still registered, with an input accepted for it.
C38_Witness ==
  /\ reply = "logs_stopped"
  /\ ninputs > 0
  /\ \E i \in 1..Len(active_exec_sessions) :
       /\ ~HasKey(active_log_streams, active_exec_sessions[i].key)
       /\ \E w \in Workers :
            worker[w].kind = "log" /\ worker[w].key = active_exec_sessions[i].key

=============================================================================
